---- MODULE Spec2Model ----
(***************************************************************************)
(* Model of NFLOvertimeSim.py: FootballTeam (one team's drive state        *)
(* machine) and FootballGame.simulate_game (the two regulation             *)
(* possessions, then the sudden-death loop).                               *)
(*                                                                         *)
(* Yardage is kept in whole yards and probabilities in whole percent.      *)
(* Every random draw of the program (triangular yardage, normal punt       *)
(* distance, uniform kick / two-point draw) is a choice from a small set.  *)
(*                                                                         *)
(* What the model does not carry:                                          *)
(*  - the history drive_data of a team. The DataFrame of the drive in      *)
(*    progress is kept as its length and its last row (the variable        *)
(*    plays); get_last_play reads exactly that row, right after the drive. *)
(*  - the drive state (downs_completed, field_position,                    *)
(*    first_down_yards_needed) of the team without the ball: once the      *)
(*    other team's drive begins it is put back to its constructor values   *)
(*    (idle). The program leaves the old values in place, and never reads  *)
(*    them: simulate_drive overwrites all three before its first play.     *)
(*  - the drive counts and yard totals of game_data. Of the two lists      *)
(*    drive_data only the difference of their lengths is kept              *)
(*    (drives_ahead).                                                      *)
(***************************************************************************)
EXTENDS Integers, Sequences, FiniteSets, TLC

VARIABLES
    pc,                 \* where the program is
    teams,              \* the two FootballTeam objects
    plays,              \* the list "plays" of the simulate_drive call in progress
    starting_position,  \* the local of simulate_game / the argument of simulate_drive
    winner, loser,      \* FootballGame.winner, FootballGame.loser
    game_data,          \* FootballGame.game_data
    drives_ahead,       \* len(first team's drive_data) - len(second team's drive_data)
    returned            \* the value returned by a method called on its own

vars == <<pc, teams, plays, starting_position, winner, loser, game_data,
          drives_ahead, returned>>

(* ---------------------------------------------------------------------- *)
(* Constants of the program                                                *)
(* ---------------------------------------------------------------------- *)
kickoff_position == 25
additional_kick_yards == 17
series_yards == 10

(* ---------------------------------------------------------------------- *)
(* Bounds and inputs of the model                                          *)
(* ---------------------------------------------------------------------- *)
\* punt distances are drawn within PuntSpread standard deviations of the mean
PuntSpread == 1

\* The arguments the teams of a game are constructed with. They are those of
\* FootballSimulation (name, go_for_two) with a yardage model on a grid of
\* 5 yards: the defaults of __init__ have exp_yards 6, punt_stdv 4 and
\* fourth_down_yard_thresh 2.
team_params ==
    [ min_yards |-> -15, exp_yards |-> 5, max_yards |-> 25,
      punt_distance |-> 45, punt_stdv |-> 5,
      fourth_down_yard_thresh |-> 6, fourth_down_position_thresh |-> 45,
      two_point_conversion_rate |-> 50 ]

\* the yardages a play may gain, cut down to the team's [min_yards, max_yards]
SampleYards == {-15, -5, 5, 25}

\* draws of np.random.uniform(), in percent
UniformSamples == {0, 55, 65, 80, 95}

None == 0
first_team == 1
second_team == 2
Teams == {first_team, second_team}
Other(t) == IF t = first_team THEN second_team ELSE first_team

(* ---------------------------------------------------------------------- *)
(* FootballTeam                                                            *)
(* ---------------------------------------------------------------------- *)
\* plays = []
NoPlays == [len |-> 0, last |-> [play_type |-> "none"]]

\* plays.append(result); only the length and the last row are kept
Append1(pl, result) == [len |-> pl.len + 1, last |-> result]

\* FootballTeam.__init__
FootballTeam(params, go_for_two) ==
    [ min_yards |-> params.min_yards,
      exp_yards |-> params.exp_yards,
      max_yards |-> params.max_yards,
      punt_distance |-> params.punt_distance,
      punt_stdv |-> params.punt_stdv,
      fourth_down_yard_thresh |-> params.fourth_down_yard_thresh,
      fourth_down_position_thresh |-> params.fourth_down_position_thresh,
      two_point_conversion_rate |-> params.two_point_conversion_rate,
      go_for_two |-> go_for_two,
      need_touchdown |-> FALSE,
      need_score |-> FALSE,
      downs_completed |-> 0,
      field_position |-> kickoff_position,
      score |-> 0,
      first_down_yards_needed |-> series_yards,
      had_ball_first |-> "None",
      has_completed_a_possession |-> FALSE ]

\* the drive state of a team without the ball is not tracked
idle(tm) ==
    [tm EXCEPT !.downs_completed = 0,
               !.field_position = kickoff_position,
               !.first_down_yards_needed = series_yards]

\* the score set to the points of the play, not raised by them
update_score_assign(tm, score_value) == [tm EXCEPT !.score = score_value]

update_score(tm, score_value) == [tm EXCEPT !.score = @ + score_value]

set_field_position(tm, new_field_position) ==
    [tm EXCEPT !.field_position = new_field_position]

update_field_position(tm, play_result) ==
    [tm EXCEPT !.field_position = @ + play_result]

reset_series(tm) ==
    [tm EXCEPT !.downs_completed = 0, !.first_down_yards_needed = series_yards]

\* a new series that carries the surplus over: 10 minus the yards beyond the marker
update_yards_to_firstdown_carry(tm, play_result) ==
    LET t1 == [tm EXCEPT !.first_down_yards_needed = @ - play_result]
    IN  IF t1.first_down_yards_needed <= 0
        THEN [reset_series(t1) EXCEPT
                !.first_down_yards_needed = series_yards + t1.first_down_yards_needed]
        ELSE t1

update_yards_to_firstdown(tm, play_result) ==
    LET t1 == [tm EXCEPT !.first_down_yards_needed = @ - play_result]
    IN  IF t1.first_down_yards_needed <= 0 THEN reset_series(t1) ELSE t1

check_touchdown(tm) == tm.field_position >= 100

get_play_conditions_dict(tm, play_type) ==
    [ field_position |-> tm.field_position,
      down |-> tm.downs_completed,
      yards_to_first_down |-> tm.first_down_yards_needed,
      play_type |-> play_type ]

\* np.random.triangular(left, mode, right) raises ValueError unless
\* left <= mode <= right and left < right
triangular_raises(tm) ==
    \/ tm.min_yards > tm.exp_yards
    \/ tm.exp_yards > tm.max_yards
    \/ tm.min_yards = tm.max_yards

\* np.random.triangular(min_yards, exp_yards, max_yards): a draw in [min, max];
\* no draw when the call raises
simulate_play_yards(tm) ==
    IF triangular_raises(tm) THEN {}
    ELSE {y \in SampleYards : tm.min_yards <= y /\ y <= tm.max_yards}

\* u is the uniform draw (percent); it is only used when go_for_two
touch_down_conversion(tm, u) ==
    IF ~tm.go_for_two THEN 1
    ELSE IF u <= tm.two_point_conversion_rate THEN 2
    ELSE 0

\* run_play with yardage draw play_result and uniform draw u:
\* the team afterwards and the play record
run_play(tm, play_result, u) ==
    LET result_dict == get_play_conditions_dict(tm, "run_play")
        t1 == update_field_position(tm, play_result)
        t2 == [t1 EXCEPT !.downs_completed = @ + 1]
        td == check_touchdown(t2)
        points_from_play == IF td THEN 6 + touch_down_conversion(t2, u) ELSE 0
        t3 == IF td THEN update_score(t2, points_from_play)
                    ELSE update_yards_to_firstdown(t2, play_result)
    IN  [ team |-> t3,
          result |-> [ field_position |-> result_dict.field_position,
                       down |-> result_dict.down,
                       yards_to_first_down |-> result_dict.yards_to_first_down,
                       play_type |-> result_dict.play_type,
                       yards_gained |-> play_result,
                       points_from_play |-> points_from_play ] ]

\* np.random.normal(punt_distance, punt_stdv); it raises ValueError on a
\* negative scale
punt_distances(tm) ==
    IF tm.punt_stdv < 0 THEN {}
    ELSE {tm.punt_distance + k * tm.punt_stdv : k \in (0 - PuntSpread)..PuntSpread}

\* a punt that does not use up the down
punt_keeps_down(tm, punt_distance) ==
    LET punt_landing_spot == punt_distance + tm.field_position
        opponent_position == IF punt_landing_spot <= 100
                             THEN 100 - punt_landing_spot
                             ELSE 25
    IN  [ team |-> tm,
          result |-> [ field_position |-> tm.field_position,
                       down |-> tm.downs_completed,
                       yards_to_first_down |-> tm.first_down_yards_needed,
                       play_type |-> "punt",
                       punt_distance |-> punt_distance,
                       opponent_position |-> opponent_position,
                       points_from_play |-> 0 ] ]

\* the touchback given to a punt that lands on the goal line as well
punt_touchback_on_goal_line(tm, punt_distance) ==
    LET punt_landing_spot == punt_distance + tm.field_position
        opponent_position == IF punt_landing_spot < 100
                             THEN 100 - punt_landing_spot
                             ELSE 25
    IN  [ team |-> [tm EXCEPT !.downs_completed = @ + 1],
          result |-> [ field_position |-> tm.field_position,
                       down |-> tm.downs_completed,
                       yards_to_first_down |-> tm.first_down_yards_needed,
                       play_type |-> "punt",
                       punt_distance |-> punt_distance,
                       opponent_position |-> opponent_position,
                       points_from_play |-> 0 ] ]

punt(tm, punt_distance) ==
    LET punt_landing_spot == punt_distance + tm.field_position
        opponent_position == IF punt_landing_spot <= 100
                             THEN 100 - punt_landing_spot
                             ELSE 25
        result_dict == get_play_conditions_dict(tm, "punt")
    IN  [ team |-> [tm EXCEPT !.downs_completed = @ + 1],
          result |-> [ field_position |-> result_dict.field_position,
                       down |-> result_dict.down,
                       yards_to_first_down |-> result_dict.yards_to_first_down,
                       play_type |-> result_dict.play_type,
                       punt_distance |-> punt_distance,
                       opponent_position |-> opponent_position,
                       points_from_play |-> 0 ] ]

\* the ranges closed at the wrong end
get_field_goal_probability_open(tm) ==
    LET yards_to_endzone == 100 - tm.field_position
        kick_distance == yards_to_endzone + additional_kick_yards
    IN  IF kick_distance < 40 THEN 90
        ELSE IF kick_distance < 50 THEN 70
        ELSE IF kick_distance < 60 THEN 60
        ELSE 0

\* kick probability in percent
get_field_goal_probability(tm) ==
    LET yards_to_endzone == 100 - tm.field_position
        kick_distance == yards_to_endzone + additional_kick_yards
    IN  IF kick_distance <= 40 THEN 90
        ELSE IF kick_distance <= 50 THEN 70
        ELSE IF kick_distance <= 60 THEN 60
        ELSE 0

kick_field_goal(tm, kick_attempt) ==
    LET made == kick_attempt <= get_field_goal_probability(tm)
        points_from_play == IF made THEN 3 ELSE 0
        t1 == IF made THEN update_score(tm, points_from_play) ELSE tm
        result_dict == get_play_conditions_dict(t1, "field_goal")
    IN  [ team |-> [t1 EXCEPT !.downs_completed = @ + 1],
          result |-> [ field_position |-> result_dict.field_position,
                       down |-> result_dict.down,
                       yards_to_first_down |-> result_dict.yards_to_first_down,
                       play_type |-> result_dict.play_type,
                       yards_gained |-> -5,
                       made_kick |-> made,
                       points_from_play |-> points_from_play ] ]

meets_fouth_down_criteria(tm) ==
    /\ tm.field_position > tm.fourth_down_position_thresh
    /\ tm.first_down_yards_needed < tm.fourth_down_yard_thresh

\* need_score looked at before the field goal
fourth_down_branch_score_first(tm) ==
    IF tm.need_touchdown \/ meets_fouth_down_criteria(tm) THEN "run_play"
    ELSE IF tm.need_score THEN "run_play"
    ELSE IF get_field_goal_probability(tm) > 55 THEN "field_goal"
    ELSE "punt"

\* need_touchdown looked at only after the field goal
fourth_down_branch_touchdown_late(tm) ==
    IF meets_fouth_down_criteria(tm) THEN "run_play"
    ELSE IF get_field_goal_probability(tm) > 55 THEN "field_goal"
    ELSE IF tm.need_touchdown \/ tm.need_score THEN "run_play"
    ELSE "punt"

\* the branch fourth_down_decision takes
fourth_down_branch(tm) ==
    IF tm.need_touchdown \/ meets_fouth_down_criteria(tm) THEN "run_play"
    ELSE IF get_field_goal_probability(tm) > 55 THEN "field_goal"
    ELSE IF tm.need_score THEN "run_play"
    ELSE "punt"

\* the outcomes of fourth_down_decision: the play the branch calls, over its draws
fourth_down_decision(tm) ==
    LET b == fourth_down_branch(tm)
    IN  IF b = "run_play"
        THEN {run_play(tm, y, u) : y \in simulate_play_yards(tm), u \in UniformSamples}
        ELSE IF b = "field_goal"
        THEN {kick_field_goal(tm, u) : u \in UniformSamples}
        ELSE {punt(tm, d) : d \in punt_distances(tm)}

\* a loop that goes round once more after the final down
drive_continues_fifth_down(tm) == tm.downs_completed <= 4 /\ tm.field_position < 100

\* the loop condition of simulate_drive
drive_continues(tm) == tm.downs_completed <= 3 /\ tm.field_position < 100

\* the final-down decision taken a down early
play_outcomes_third_down(tm) ==
    IF tm.downs_completed <= 1
    THEN {run_play(tm, y, u) : y \in simulate_play_yards(tm), u \in UniformSamples}
    ELSE fourth_down_decision(tm)

\* the body of the loop of simulate_drive: the outcomes of the play it calls
play_outcomes(tm) ==
    IF tm.downs_completed <= 2
    THEN {run_play(tm, y, u) : y \in simulate_play_yards(tm), u \in UniformSamples}
    ELSE fourth_down_decision(tm)

\* simulate_drive up to its loop
begin_drive(tm, start) == reset_series(set_field_position(tm, start))

\* simulate_drive after its loop
end_drive(tm) == [tm EXCEPT !.has_completed_a_possession = TRUE]

\* update_drive_data of team t: one more DataFrame in its drive_data
update_drive_data(t, ahead) == IF t = first_team THEN ahead + 1 ELSE ahead - 1

\* get_last_play raises IndexError on a drive without plays
has_last_play(pl) == pl.len > 0

\* the field flipped at the line of scrimmage, the yards of the play left out
determine_opponent_position_scrimmage(pl) ==
    LET last_play == pl.last
    IN  IF last_play.points_from_play > 0 THEN 25
        ELSE IF last_play.play_type = "punt" THEN last_play.opponent_position
        ELSE 100 - last_play.field_position

\* pl is the drive the team has just ended
determine_opponent_position(pl) ==
    LET last_play == pl.last
    IN  IF last_play.points_from_play > 0 THEN 25
        ELSE IF last_play.play_type = "punt" THEN last_play.opponent_position
        ELSE 100 - (last_play.field_position + last_play.yards_gained)

(* ---------------------------------------------------------------------- *)
(* FootballGame                                                            *)
(* ---------------------------------------------------------------------- *)
\* "drive" is a simulate_drive call made on its own, on the first team
DrivePcs == {"reg1", "reg2", "sd1", "sd2", "drive"}

\* the team whose simulate_drive call is in progress
driving == IF pc \in {"reg1", "sd1", "drive"} THEN first_team ELSE second_team

check_for_winner(ts) ==
    /\ ts[first_team].has_completed_a_possession
    /\ ts[second_team].has_completed_a_possession
    /\ ts[first_team].score # ts[second_team].score

\* set_winning_team with its two comparisons exchanged
set_winning_team_reversed(ts, w, l) ==
    IF ts[first_team].score < ts[second_team].score
    THEN [winner |-> first_team, loser |-> second_team]
    ELSE IF ts[first_team].score > ts[second_team].score
    THEN [winner |-> second_team, loser |-> first_team]
    ELSE [winner |-> None, loser |-> l]

\* "not self.check_for_winner" tests the bound method, which is always true,
\* so the first branch is never taken
set_winning_team(ts, w, l) ==
    IF FALSE THEN [winner |-> w, loser |-> l]
    ELSE IF ts[first_team].score > ts[second_team].score
    THEN [winner |-> first_team, loser |-> second_team]
    ELSE IF ts[first_team].score < ts[second_team].score
    THEN [winner |-> second_team, loser |-> first_team]
    ELSE [winner |-> None, loser |-> l]

\* game_data[key] = value
SetItem(d, key, value) ==
    [k \in (DOMAIN d) \cup {key} |-> IF k = key THEN value ELSE d[k]]

update_game_data(gd, ts, w, l) ==
    IF w # None
    THEN LET g1 == SetItem(gd, "winner", w)
             g2 == SetItem(g1, "loser", l)
             g3 == SetItem(g2, "winner_score", ts[w].score)
             g4 == SetItem(g3, "winner_score", ts[l].score)
             g5 == SetItem(g4, "winner_had_ball_first", ts[w].had_ball_first)
         IN  g5
    ELSE gd

\* enable_sudden_death that leaves the second team's flags alone
enable_sudden_death_first_only(ts) ==
    [ts EXCEPT ![first_team].need_touchdown = FALSE, ![first_team].need_score = FALSE]

enable_sudden_death(ts) ==
    [t \in Teams |-> [ts[t] EXCEPT !.need_touchdown = FALSE, !.need_score = FALSE]]

\* the two obligations exchanged
set_obligations_swapped(ts) ==
    LET a == IF ts[first_team].score = 7
             THEN [ts EXCEPT ![second_team].need_score = TRUE]
             ELSE ts
    IN  IF a[first_team].score = 3
        THEN [a EXCEPT ![second_team].need_touchdown = TRUE]
        ELSE a

\* lines 372-376: what the second team has to answer
set_obligations(ts) ==
    LET a == IF ts[first_team].score = 7
             THEN [ts EXCEPT ![second_team].need_touchdown = TRUE]
             ELSE ts
    IN  IF a[first_team].score = 3
        THEN [a EXCEPT ![second_team].need_score = TRUE]
        ELSE a

Init ==
    /\ pc = "start"
    /\ teams \in [Teams -> {FootballTeam(team_params, g) : g \in BOOLEAN}]
    /\ plays = NoPlays
    /\ starting_position = kickoff_position
    /\ winner = None
    /\ loser = None
    /\ game_data = <<>>
    /\ drives_ahead = 0
    /\ returned = None

\* simulate_drive called without the position: its default is the kickoff
NextDrive_default_position(ts, t, start, nextpc) ==
    /\ teams' = [ts EXCEPT ![t] = begin_drive(@, kickoff_position),
                           ![Other(t)] = idle(@)]
    /\ plays' = NoPlays
    /\ starting_position' = start
    /\ pc' = nextpc
    /\ UNCHANGED <<winner, loser, game_data, returned>>

\* the next simulate_drive call, up to its loop
NextDrive(ts, t, start, nextpc) ==
    /\ teams' = [ts EXCEPT ![t] = begin_drive(@, start), ![Other(t)] = idle(@)]
    /\ plays' = NoPlays
    /\ starting_position' = start
    /\ pc' = nextpc
    /\ UNCHANGED <<winner, loser, game_data, returned>>

\* set_winning_team(); update_game_data(); return
Resolve(ts) ==
    LET wl == set_winning_team(ts, winner, loser)
    IN  /\ teams' = ts
        /\ winner' = wl.winner
        /\ loser' = wl.loser
        /\ game_data' = update_game_data(game_data, ts, wl.winner, wl.loser)
        /\ pc' = "done"
        /\ UNCHANGED <<plays, starting_position, returned>>

\* get_last_play raised IndexError out of simulate_game
Crash(ts) ==
    /\ teams' = ts
    /\ pc' = "crashed"
    /\ UNCHANGED <<plays, starting_position, winner, loser, game_data, returned>>

\* lines 361-368, up to the loop of the first drive
StartGame ==
    /\ pc = "start"
    /\ NextDrive([teams EXCEPT ![first_team].had_ball_first = "True",
                               ![second_team].had_ball_first = "False"],
                 first_team, kickoff_position, "reg1")
    /\ UNCHANGED drives_ahead

\* one turn of the loop of simulate_drive with downs_completed <= 2
RunPlay ==
    /\ pc \in DrivePcs
    /\ drive_continues(teams[driving])
    /\ teams[driving].downs_completed <= 2
    /\ \E r \in play_outcomes(teams[driving]) :
         /\ teams' = [teams EXCEPT ![driving] = r.team]
         /\ plays' = Append1(plays, r.result)
    /\ UNCHANGED <<pc, starting_position, winner, loser, game_data,
                   drives_ahead, returned>>

\* one turn of the loop of simulate_drive on the final down
FourthDown ==
    /\ pc \in DrivePcs
    /\ drive_continues(teams[driving])
    /\ teams[driving].downs_completed > 2
    /\ \E r \in play_outcomes(teams[driving]) :
         /\ teams' = [teams EXCEPT ![driving] = r.team]
         /\ plays' = Append1(plays, r.result)
    /\ UNCHANGED <<pc, starting_position, winner, loser, game_data,
                   drives_ahead, returned>>

\* the first drive is over: lines 368-379, up to the loop of the second drive
EndFirstPossession ==
    /\ pc = "reg1"
    /\ ~drive_continues(teams[first_team])
    /\ drives_ahead' = update_drive_data(first_team, drives_ahead)
    /\ LET a == [teams EXCEPT ![first_team] = end_drive(@)]
       IN  IF ~has_last_play(plays) THEN Crash(a)
           ELSE NextDrive(set_obligations(a), second_team,
                          determine_opponent_position(plays), "reg2")

\* the second drive is over: lines 379-386, or 395-399 when the loop is skipped
EndSecondPossession ==
    /\ pc = "reg2"
    /\ ~drive_continues(teams[second_team])
    /\ drives_ahead' = update_drive_data(second_team, drives_ahead)
    /\ LET a == [teams EXCEPT ![second_team] = end_drive(@)]
       IN  IF ~has_last_play(plays) THEN Crash(a)
           ELSE LET b == enable_sudden_death(a)
                IN  IF check_for_winner(b) THEN Resolve(b)
                    ELSE NextDrive(b, first_team,
                                   determine_opponent_position(plays), "sd1")

\* the loop without its break: the second team drives whatever the first did
EndSuddenDeathFirst_NoBreak ==
    /\ pc = "sd1"
    /\ ~drive_continues(teams[first_team])
    /\ drives_ahead' = update_drive_data(first_team, drives_ahead)
    /\ LET a == [teams EXCEPT ![first_team] = end_drive(@)]
       IN  IF ~has_last_play(plays) THEN Crash(a)
           ELSE NextDrive(a, second_team,
                          determine_opponent_position(plays), "sd2")

\* the first team's drive of the loop is over: lines 386-392
EndSuddenDeathFirst ==
    /\ pc = "sd1"
    /\ ~drive_continues(teams[first_team])
    /\ drives_ahead' = update_drive_data(first_team, drives_ahead)
    /\ LET a == [teams EXCEPT ![first_team] = end_drive(@)]
       IN  IF check_for_winner(a) THEN Resolve(a)
           ELSE IF ~has_last_play(plays) THEN Crash(a)
           ELSE NextDrive(a, second_team,
                          determine_opponent_position(plays), "sd2")

\* the second team's drive of the loop is over: lines 392-393, then 385
EndSuddenDeathSecond ==
    /\ pc = "sd2"
    /\ ~drive_continues(teams[second_team])
    /\ drives_ahead' = update_drive_data(second_team, drives_ahead)
    /\ LET a == [teams EXCEPT ![second_team] = end_drive(@)]
       IN  IF ~has_last_play(plays) THEN Crash(a)
           ELSE IF check_for_winner(a) THEN Resolve(a)
           ELSE NextDrive(a, first_team,
                          determine_opponent_position(plays), "sd1")

Next ==
    \/ StartGame
    \/ RunPlay
    \/ FourthDown
    \/ EndFirstPossession
    \/ EndSecondPossession
    \/ EndSuddenDeathFirst
    \/ EndSuddenDeathSecond

Spec == Init /\ [][Next]_vars

\* simulate_game runs on as long as it can
FairSpec == Spec /\ WF_vars(Next)

(* ---------------------------------------------------------------------- *)
(* fourth_down_decision called on its own, on a team on its final down     *)
(* ---------------------------------------------------------------------- *)
FourthDownPositions == {20, 44, 45, 46, 56, 57, 58, 70, 95}
FourthDownYardsNeeded == {1, 2, 5, 6, 10}
PositionThresholds == {45, 60}
YardThresholds == {2, 6}

InitFourthDown ==
    /\ pc = "fourth_down"
    /\ \E pt \in PositionThresholds, yt \in YardThresholds,
          fp \in FourthDownPositions, yn \in FourthDownYardsNeeded,
          nt \in BOOLEAN, ns \in BOOLEAN :
         teams = [t \in Teams |->
                    IF t = first_team
                    THEN [FootballTeam([team_params EXCEPT
                                          !.fourth_down_position_thresh = pt,
                                          !.fourth_down_yard_thresh = yt], FALSE)
                            EXCEPT !.need_touchdown = nt,
                                   !.need_score = ns,
                                   !.downs_completed = 3,
                                   !.field_position = fp,
                                   !.first_down_yards_needed = yn]
                    ELSE FootballTeam(team_params, FALSE)]
    /\ plays = NoPlays
    /\ starting_position = kickoff_position
    /\ winner = None
    /\ loser = None
    /\ game_data = <<>>
    /\ drives_ahead = 0
    /\ returned = None

FourthDownDecision ==
    /\ pc = "fourth_down"
    /\ \E r \in fourth_down_decision(teams[first_team]) :
         /\ teams' = [teams EXCEPT ![first_team] = r.team]
         /\ plays' = Append1(plays, r.result)
    /\ pc' = "decided"
    /\ UNCHANGED <<starting_position, winner, loser, game_data,
                   drives_ahead, returned>>

NextFourthDown == FourthDownDecision

FourthDownSpec == InitFourthDown /\ [][NextFourthDown]_vars

(* ---------------------------------------------------------------------- *)
(* simulate_drive called on its own, on a team as constructed              *)
(* ---------------------------------------------------------------------- *)
\* a team whose every play is to gain 10 yards
ten_yard_params ==
    [team_params EXCEPT !.min_yards = 10, !.exp_yards = 10, !.max_yards = 10]

\* arguments of FootballTeam(...): __init__ stores whatever it is given
DriveConfigs ==
    { team_params,
      ten_yard_params,
      [team_params EXCEPT !.min_yards = 10],
      [team_params EXCEPT !.exp_yards = 30],
      [team_params EXCEPT !.two_point_conversion_rate = 150],
      [team_params EXCEPT !.punt_stdv = -5] }

\* arguments of simulate_drive
DriveStarts == {0, 25, 60, 95}

InitDrive ==
    /\ pc = "constructed"
    /\ \E cfg \in DriveConfigs, g \in BOOLEAN, nt \in BOOLEAN :
         teams = [t \in Teams |->
                    IF t = first_team
                    THEN [FootballTeam(cfg, g) EXCEPT !.need_touchdown = nt]
                    ELSE FootballTeam(team_params, FALSE)]
    /\ plays = NoPlays
    /\ starting_position = kickoff_position
    /\ winner = None
    /\ loser = None
    /\ game_data = <<>>
    /\ drives_ahead = 0
    /\ returned = None

\* simulate_drive(starting_position), up to its loop
SimulateDrive ==
    /\ pc = "constructed"
    /\ \E start \in DriveStarts :
         /\ teams' = [teams EXCEPT ![first_team] = begin_drive(@, start)]
         /\ starting_position' = start
    /\ plays' = NoPlays
    /\ pc' = "drive"
    /\ UNCHANGED <<winner, loser, game_data, drives_ahead, returned>>

\* the play of this turn of the loop raised ValueError out of simulate_drive
DriveRaises ==
    /\ pc = "drive"
    /\ drive_continues(teams[first_team])
    /\ play_outcomes(teams[first_team]) = {}
    /\ pc' = "crashed"
    /\ UNCHANGED <<teams, plays, starting_position, winner, loser, game_data,
                   drives_ahead, returned>>

\* simulate_drive after its loop
DriveReturns ==
    /\ pc = "drive"
    /\ ~drive_continues(teams[first_team])
    /\ teams' = [teams EXCEPT ![first_team] = end_drive(@)]
    /\ drives_ahead' = update_drive_data(first_team, drives_ahead)
    /\ pc' = "returned"
    /\ UNCHANGED <<plays, starting_position, winner, loser, game_data, returned>>

NextDriveAlone ==
    \/ SimulateDrive
    \/ RunPlay
    \/ FourthDown
    \/ DriveRaises
    \/ DriveReturns

DriveSpec == InitDrive /\ [][NextDriveAlone]_vars

(* ---------------------------------------------------------------------- *)
(* get_field_goal_probability called on its own                            *)
(* ---------------------------------------------------------------------- *)
KickPositions == 20..105

InitKick ==
    /\ pc = "kick_query"
    /\ \E fp \in KickPositions, g \in BOOLEAN :
         teams = [t \in Teams |->
                    IF t = first_team
                    THEN [FootballTeam(team_params, g) EXCEPT !.field_position = fp]
                    ELSE FootballTeam(team_params, FALSE)]
    /\ plays = NoPlays
    /\ starting_position = kickoff_position
    /\ winner = None
    /\ loser = None
    /\ game_data = <<>>
    /\ drives_ahead = 0
    /\ returned = None

GetFieldGoalProbability ==
    /\ pc = "kick_query"
    /\ returned' = get_field_goal_probability(teams[first_team])
    /\ pc' = "queried"
    /\ UNCHANGED <<teams, plays, starting_position, winner, loser, game_data,
                   drives_ahead>>

NextKick == GetFieldGoalProbability

KickSpec == InitKick /\ [][NextKick]_vars

(* ---------------------------------------------------------------------- *)
(* Properties                                                              *)
(* ---------------------------------------------------------------------- *)
\* a play has just been appended to the drive in progress
PlayStep == pc \in DrivePcs /\ plays'.len = plays.len + 1

\* the drive in progress has just been handed over to the other team
HandOver == pc \in DrivePcs /\ pc' \in DrivePcs /\ pc' # pc

\* the last play of the drive in progress scored
LastPlayScored == plays.len > 0 /\ plays.last.points_from_play > 0

\* C1: a winner is assigned only when both teams have completed a possession
\* and their scores differ; the winner is then the team with the strictly
\* higher score and the loser is the other team.
C1_WinnerHasHigherScore ==
    winner # None =>
        /\ teams[first_team].has_completed_a_possession
        /\ teams[second_team].has_completed_a_possession
        /\ loser = Other(winner)
        /\ teams[winner].score > teams[loser].score

C1_Witness ==
    /\ pc = "done"
    /\ winner = second_team
    /\ teams[first_team].score > 0

\* C2: sudden death is next-score-wins. The scores are level in the loop until
\* a play scores; the drive of that play is the last one: the next step resolves
\* the game for the team that scored, and once the winner condition holds no
\* play is run and no drive is begun.
C2_NextScoreWins ==
    /\ [](pc \in {"sd1", "sd2"} /\ ~LastPlayScored
            => teams[first_team].score = teams[second_team].score)
    /\ [][ /\ (pc \in {"sd1", "sd2"} /\ LastPlayScored)
                => (pc' = "done" /\ winner' = driving /\ loser' = Other(driving)
                    /\ plays' = plays)
           /\ (pc \in DrivePcs /\ check_for_winner(teams))
                => (pc' = "done" /\ plays' = plays) ]_vars

C2_Witness ==
    /\ pc = "sd1"
    /\ LastPlayScored
    /\ teams[second_team].score = 3

\* C3: simulate_game always terminates (the sudden-death loop is bounded).
C3_Terminates == <>(pc \in {"done", "crashed"})

\* C4: the summary of a resolved game holds a winner score and a loser score,
\* the scores of the winner and of the loser, the first greater than the second.
C4_SummaryScores ==
    (pc = "done" /\ winner # None) =>
        /\ "winner_score" \in DOMAIN game_data
        /\ "loser_score" \in DOMAIN game_data
        /\ game_data["winner_score"] = teams[winner].score
        /\ game_data["loser_score"] = teams[loser].score
        /\ game_data["winner_score"] > game_data["loser_score"]

\* C5: during the second team's regulation possession its need_touchdown is
\* set exactly when the first team scored 7 and its need_score exactly when the
\* first team scored 3; the first team's flags are as constructed (false).
C5_Obligations ==
    pc = "reg2" =>
        /\ teams[second_team].need_touchdown <=> (teams[first_team].score = 7)
        /\ teams[second_team].need_score <=> (teams[first_team].score = 3)
        /\ ~teams[first_team].need_touchdown
        /\ ~teams[first_team].need_score

C5_Witness ==
    /\ pc = "reg2"
    /\ plays.len = 0
    /\ teams[first_team].score = 3
    /\ teams[second_team].need_score

\* C6: when the scores are level after the two regulation possessions no
\* winner is declared and the game goes on to sudden death; in every state of
\* a sudden-death drive all four obligation flags are false.
C6_SuddenDeathClearsFlags ==
    /\ [](pc \in {"sd1", "sd2"} =>
            /\ winner = None
            /\ \A t \in Teams : ~teams[t].need_touchdown /\ ~teams[t].need_score)
    /\ [][ (pc = "reg2" /\ pc' # "reg2"
              /\ teams'[first_team].score = teams'[second_team].score)
             => (pc' = "sd1" /\ winner' = None) ]_vars

C6_Witness ==
    /\ pc = "sd1"
    /\ plays.len > 0
    /\ teams[first_team].score = 3
    /\ teams[second_team].score = 3

\* C7: on the final down fourth_down_decision takes the first rule that
\* matches: run if need_touchdown or (position > position threshold and yards
\* needed < yard threshold); else field goal if the kick probability is above
\* 0.55 (kick distance 117 - position at most 60); else run if need_score;
\* else punt.
C7_FourthDownRules ==
    pc = "decided" =>
        LET tm == teams[first_team]
            fp == plays.last.field_position
            yn == plays.last.yards_to_first_down
        IN  plays.last.play_type =
              IF tm.need_touchdown
                 \/ (fp > tm.fourth_down_position_thresh
                     /\ yn < tm.fourth_down_yard_thresh)
              THEN "run_play"
              ELSE IF 117 - fp <= 60 THEN "field_goal"
              ELSE IF tm.need_score THEN "run_play"
              ELSE "punt"

\* need_touchdown forces the run where the thresholds alone give a punt
C7_Witness ==
    /\ pc = "decided"
    /\ teams[first_team].need_touchdown
    /\ ~teams[first_team].need_score
    /\ plays.last.field_position <= teams[first_team].fourth_down_position_thresh
    /\ 117 - plays.last.field_position > 60
    /\ plays.last.play_type = "run_play"

\* C8: downs_completed is in 0..3 at the start of every play; a play started
\* at downs_completed 3 either renews the set (downs_completed 0) or is the
\* last play of the drive; downs_completed is 4 only when the drive is over.
C8_DownsInRange ==
    /\ [](pc \in DrivePcs =>
            /\ teams[driving].downs_completed \in 0..4
            /\ drive_continues(teams[driving])
                 => teams[driving].downs_completed \in 0..3)
    /\ [][ (PlayStep /\ teams[driving].downs_completed = 3)
             => \/ teams'[driving].downs_completed = 0
                \/ ~drive_continues(teams'[driving]) ]_vars

C8_Witness ==
    /\ pc \in DrivePcs
    /\ plays.len > 0
    /\ plays.last.down = 3
    /\ plays.last.play_type = "punt"
    /\ teams[driving].downs_completed = 4

\* C9: a run play on the final down that gains at least the yards needed and
\* stays short of the goal line leaves downs_completed 0, yards needed 10,
\* the field position at the old one plus the gain, the score as it was, and
\* the drive goes on with another play.
C9_ConversionRenewsSeries ==
    [][ (/\ PlayStep
         /\ teams[driving].downs_completed = 3
         /\ plays'.last.play_type = "run_play"
         /\ plays'.last.yards_gained >= teams[driving].first_down_yards_needed
         /\ teams[driving].field_position + plays'.last.yards_gained < 100)
        => (/\ teams'[driving].downs_completed = 0
            /\ teams'[driving].first_down_yards_needed = 10
            /\ teams'[driving].field_position
                 = teams[driving].field_position + plays'.last.yards_gained
            /\ teams'[driving].score = teams[driving].score
            /\ pc' = pc
            /\ drive_continues(teams'[driving])) ]_vars

\* a conversion with yards to spare
C9_Witness ==
    /\ pc \in DrivePcs
    /\ plays.len > 0
    /\ plays.last.down = 3
    /\ plays.last.play_type = "run_play"
    /\ plays.last.yards_gained > plays.last.yards_to_first_down
    /\ plays.last.field_position + plays.last.yards_gained < 100
    /\ teams[driving].downs_completed = 0

\* C10: the next drive starts at 25 after a play that scored, at the punt's
\* recorded opponent position after a punt, and otherwise at 100 minus (the
\* position before the last play plus its recorded yards): 100 minus the
\* position the team ended at after a failed run, 105 minus the position of
\* the kick after a missed field goal.
C10_NextStart ==
    [][ HandOver =>
          LET last == plays.last
              start == teams'[Other(driving)].field_position
          IN  /\ starting_position' = start
              /\ last.points_from_play > 0 => start = 25
              /\ (last.points_from_play = 0 /\ last.play_type = "punt")
                   => start = last.opponent_position
              /\ (last.points_from_play = 0 /\ last.play_type = "run_play")
                   => /\ start = 100 - (last.field_position + last.yards_gained)
                      /\ start = 100 - teams[driving].field_position
              /\ (last.points_from_play = 0 /\ last.play_type = "field_goal")
                   => /\ last.yards_gained = -5
                      /\ start = 105 - last.field_position
                      /\ start = 105 - teams[driving].field_position ]_vars

\* a missed field goal from the 70, about to be handed over
C10_Witness ==
    /\ pc = "reg1"
    /\ plays.len > 0
    /\ plays.last.play_type = "field_goal"
    /\ plays.last.points_from_play = 0
    /\ plays.last.field_position = 70

\* C11: for every punt, with the landing spot the position before the punt
\* plus the punt distance: the recorded opponent position is 25 when the
\* landing spot is beyond 100 and 100 minus the landing spot otherwise (0 on
\* the goal line); the punt records 0 points and leaves the punting team's
\* field position and score as they were.
C11_PuntTouchback ==
    [][ (PlayStep /\ plays'.last.play_type = "punt") =>
          LET landing == teams[driving].field_position + plays'.last.punt_distance
          IN  /\ plays'.last.field_position = teams[driving].field_position
              /\ landing > 100 => plays'.last.opponent_position = 25
              /\ landing <= 100 => plays'.last.opponent_position = 100 - landing
              /\ landing = 100 => plays'.last.opponent_position = 0
              /\ plays'.last.points_from_play = 0
              /\ teams'[driving].field_position = teams[driving].field_position
              /\ teams'[driving].score = teams[driving].score ]_vars

\* a punt that came down on the goal line
C11_Witness ==
    /\ pc \in DrivePcs
    /\ plays.len > 0
    /\ plays.last.play_type = "punt"
    /\ plays.last.field_position + plays.last.punt_distance = 100
    /\ plays.last.opponent_position = 0

\* C12: a team whose every play gains exactly 10 yards (min_yards =
\* exp_yards = max_yards = 10), not going for two, driving from the 25:
\* every play is a run play from downs_completed 0, the position after the
\* k-th play is 25 + 10k, and simulate_drive ends with exactly 8 plays, the
\* last from the 95 to the 105, and a score of 7.
C12_TenYardDrive ==
    LET tm == teams[first_team]
    IN  ( /\ tm.min_yards = 10 /\ tm.exp_yards = 10 /\ tm.max_yards = 10
          /\ ~tm.go_for_two
          /\ starting_position = 25
          /\ pc \in {"drive", "returned", "crashed"} )
        => /\ plays.len <= 8
           /\ tm.field_position = 25 + 10 * plays.len
           /\ plays.len > 0 => /\ plays.last.play_type = "run_play"
                                /\ plays.last.down = 0
                                /\ plays.last.yards_gained = 10
           /\ pc \in {"returned", "crashed"}
                => /\ plays.len = 8
                   /\ plays.last.field_position = 95
                   /\ plays.last.points_from_play = 7
                   /\ tm.score = 7

\* C13: get_field_goal_probability is a step function of the kick distance
\* (100 - field position) + 17: 0.90 up to 40, 0.70 from above 40 up to 50,
\* 0.60 from above 50 up to 60, 0 beyond 60 (in percent: at 40, 41, 50, 51,
\* 60, 61 it returns 90, 70, 70, 60, 60, 0); the call changes no team state.
C13_FieldGoalSteps ==
    /\ [](pc = "queried" =>
            LET kick_distance == (100 - teams[first_team].field_position) + 17
            IN  /\ kick_distance <= 40 => returned = 90
                /\ (40 < kick_distance /\ kick_distance <= 50) => returned = 70
                /\ (50 < kick_distance /\ kick_distance <= 60) => returned = 60
                /\ kick_distance > 60 => returned = 0
                /\ kick_distance = 40 => returned = 90
                /\ kick_distance = 41 => returned = 70
                /\ kick_distance = 50 => returned = 70
                /\ kick_distance = 51 => returned = 60
                /\ kick_distance = 60 => returned = 60
                /\ kick_distance = 61 => returned = 0)
    /\ [][pc = "kick_query" => teams' = teams]_vars

\* the longest kick that is still tried: 60 yards, from the 57
C13_Witness ==
    /\ pc = "queried"
    /\ teams[first_team].field_position = 57
    /\ returned = 60

\* a configuration the specification calls invalid
InvalidConfiguration(tm) ==
    \/ tm.min_yards > tm.exp_yards
    \/ tm.exp_yards > tm.max_yards
    \/ tm.two_point_conversion_rate < 0
    \/ tm.two_point_conversion_rate > 100
    \/ tm.punt_stdv < 0

\* C14: constructing a team with an invalid configuration (min_yards >
\* exp_yards, exp_yards > max_yards, a two-point probability outside [0, 1],
\* a negative punt_stdv) fails at construction, so no play is ever simulated
\* for a team with such a configuration.
C14_InvalidConfigRejected ==
    InvalidConfiguration(teams[first_team]) => plays.len = 0

\* C15: possessions alternate, the first team beginning: every drive after
\* the first is the other team's, and the first team has recorded as many
\* drives as the second or one more. The first drive starts at 25; every
\* later drive starts where determine_opponent_position puts it from the last
\* play of the drive just ended.
C15_Alternation ==
    /\ [](drives_ahead \in {0, 1})
    /\ [](pc \in {"reg1", "reg2", "sd1", "sd2"}
            => drives_ahead = IF driving = first_team THEN 0 ELSE 1)
    /\ [][ /\ pc = "start"
              => /\ pc' = "reg1"
                 /\ starting_position' = 25
                 /\ teams'[first_team].field_position = 25
           /\ HandOver
              => /\ (pc \in {"reg1", "sd1"}) = (pc' \in {"reg2", "sd2"})
                 /\ plays.len > 0
                 /\ plays'.len = 0
                 /\ starting_position' = determine_opponent_position(plays)
                 /\ teams'[IF pc' \in {"reg1", "sd1"} THEN first_team
                           ELSE second_team].field_position
                      = determine_opponent_position(plays) ]_vars

\* the first team's second drive, begun off a punt of the second team
C15_Witness ==
    /\ pc = "sd1"
    /\ plays.len = 0
    /\ drives_ahead = 0
    /\ starting_position = 30
    /\ teams[first_team].field_position = 30

\* C16: during the second team's regulation possession, when the first team
\* opened with exactly 7 every play is a run play (no punt, no field goal),
\* and when it opened with exactly 3 no play is a punt.
C16_AnswerTheScore ==
    (pc = "reg2" /\ plays.len > 0) =>
        /\ teams[first_team].score = 7 => plays.last.play_type = "run_play"
        /\ teams[first_team].score = 3 => plays.last.play_type # "punt"

\* down 7 and in field-goal range on the final down, short of the line to
\* gain by more than the threshold: the team runs
C16_Witness ==
    /\ pc = "reg2"
    /\ teams[first_team].score = 7
    /\ plays.len > 0
    /\ plays.last.down = 3
    /\ plays.last.field_position >= 57
    /\ plays.last.yards_to_first_down >= teams[second_team].fourth_down_yard_thresh
    /\ plays.last.play_type = "run_play"

\* C17: every drive of a game starts at a field position in [0, 100), so
\* every drive that is over has at least one play, and
\* determine_opponent_position is never applied to a drive without plays.
C17_DrivesStartOnField ==
    /\ pc \in {"reg1", "reg2", "sd1", "sd2"}
         => /\ 0 <= starting_position /\ starting_position < 100
            /\ ~drive_continues(teams[driving]) => plays.len > 0
    /\ pc # "crashed"

\* C18: a drive started at s, 0 <= s < 100, has at most
\* 4 * ceiling((100 - s) / 10) plays whatever the plays do (32 from the 25,
\* 4 from the 95), and every turn of its loop records one play: the drive
\* ends.
C18_DriveLength ==
    /\ [](pc \in {"drive", "returned", "crashed"} =>
            /\ plays.len <= 4 * ((100 - starting_position + 9) \div 10)
            /\ starting_position = 25 => plays.len <= 32
            /\ starting_position = 95 => plays.len <= 4)
    /\ [][(pc = "drive" /\ pc' = "drive") => plays'.len = plays.len + 1]_vars

\* the bound met: four plays from the 95, the last a kick
C18_Witness ==
    /\ pc = "returned"
    /\ starting_position = 95
    /\ plays.len = 4
    /\ plays.last.play_type = "field_goal"

\* C19: punts and field-goal attempts are recorded only from downs_completed
\* 3 and only as the last play of a drive; the plays from downs_completed 0,
\* 1 and 2 are run plays; the last play of a drive is exactly one of: a run
\* play that reaches 100 or beyond, a field-goal attempt, a punt, a run play
\* from downs_completed 3 that neither scores nor gains the yards needed.
C19_PlayKinds ==
    (pc \in DrivePcs /\ plays.len > 0) =>
        LET last == plays.last
            over == ~drive_continues(teams[driving])
            touchdown == /\ last.play_type = "run_play"
                         /\ last.field_position + last.yards_gained >= 100
            kick == last.play_type = "field_goal"
            punted == last.play_type = "punt"
            stopped == /\ last.play_type = "run_play"
                       /\ last.down = 3
                       /\ last.field_position + last.yards_gained < 100
                       /\ last.yards_gained < last.yards_to_first_down
        IN  /\ last.play_type \in {"run_play", "field_goal", "punt"}
            /\ last.down \in 0..3
            /\ last.play_type \in {"field_goal", "punt"} => (last.down = 3 /\ over)
            /\ last.down \in 0..2 => last.play_type = "run_play"
            /\ over => Cardinality({c \in {<<1, touchdown>>, <<2, kick>>,
                                           <<3, punted>>, <<4, stopped>>} :
                                     c[2]}) = 1

\* a drive stopped on the final down
C19_Witness ==
    /\ pc \in DrivePcs
    /\ ~drive_continues(teams[driving])
    /\ plays.len > 0
    /\ plays.last.play_type = "run_play"
    /\ plays.last.down = 3
    /\ plays.last.points_from_play = 0
    /\ teams[driving].downs_completed = 4

\* C20: a team's score changes only when one of its plays is recorded, and
\* then by that play's points_from_play (so the score is the sum of the
\* points of the team's plays); scores never decrease; only the last play of
\* a drive has points; the points of a play are 3 exactly for a made field
\* goal, 7 exactly for a touchdown of a team not going for two, 6 or 8
\* exactly for a touchdown of a team going for two, and 0 otherwise.
C20_ScoreAccounting ==
    /\ [](teams[first_team].score >= 0 /\ teams[second_team].score >= 0)
    /\ [](pc = "start" => teams[first_team].score = 0 /\ teams[second_team].score = 0)
    /\ []((pc \in DrivePcs /\ plays.len > 0) =>
            LET last == plays.last
                p == last.points_from_play
                touchdown == /\ last.play_type = "run_play"
                             /\ last.field_position + last.yards_gained >= 100
                made == last.play_type = "field_goal" /\ last.made_kick
            IN  /\ p \in {0, 3, 6, 7, 8}
                /\ (p = 3) = made
                /\ (p = 7) = (touchdown /\ ~teams[driving].go_for_two)
                /\ (p \in {6, 8}) = (touchdown /\ teams[driving].go_for_two)
                /\ p > 0 => ~drive_continues(teams[driving]))
    /\ [][ /\ PlayStep =>
                /\ teams'[driving].score
                     = teams[driving].score + plays'.last.points_from_play
                /\ teams'[Other(driving)].score = teams[Other(driving)].score
           /\ ~PlayStep =>
                \A t \in Teams : teams'[t].score = teams[t].score
           /\ \A t \in Teams : teams'[t].score >= teams[t].score ]_vars

\* a second field goal of the same team: 3 and 3 are 6
C20_Witness ==
    /\ pc \in DrivePcs
    /\ plays.len > 0
    /\ plays.last.play_type = "field_goal"
    /\ plays.last.points_from_play = 3
    /\ teams[driving].score = 6

====
